---------------------------- MODULE Spec2Model ----------------------------
(***************************************************************************)
(* control-sim-rs: the elevator PID loop, its plant and the simulation     *)
(* harness, as a state machine.                                            *)
(*                                                                         *)
(* Two copies of the elevator example exist in the repository and differ   *)
(* in one tuning constant and in the shim's safety assertion:              *)
(*   variant = "lib"      src/src/lib.rs, mod example                      *)
(*   variant = "example"  src/examples/elevator_pid/src/lib.rs             *)
(*                                                                         *)
(* Numbers.  The code computes in f64.                                     *)
(*  - Times that drive a loop condition (elapsed, the run_time argument,   *)
(*    CONTROL_DT, SIMUL_DT) are modelled bit-exactly: a time is the        *)
(*    integer t * 2^70 held in three 26-bit limbs, and F64Add rounds a sum *)
(*    to 53 significant bits, ties to even, as IEEE-754 addition does.     *)
(*  - Lengths, velocities and voltages are fixed-point integers and their  *)
(*    arithmetic is exact:                                                 *)
(*        length    1 um        (encoder, setpoint, error, position)       *)
(*        voltage   20 uV       (so KP = 20 V/m is 1 unit per um)          *)
(*        time      1/200 s     in controller products (DT = 1)            *)
(*        velocity  1e-8 m/s    (plant state)                              *)
(*    Inside sim_time the position is accumulated in units of 2 nm and     *)
(*    rounded to 1 um when the new state is built.                         *)
(***************************************************************************)
EXTENDS Integers, Sequences, FiniteSets, TLC

VARIABLES
    variant,      \* which copy of the example is built: "lib" or "example"
    debug,        \* cfg(debug_assertions): debug_assert! and dbg_* are active
    \* ElevatorPIDLoop fields
    state, sp, last_err, zero_offset, zero_goal,
    \* the iterate call in progress
    it_pc,        \* "idle", "dispatch" (inside iterate), "done", "panic"
    encoder, limit,   \* arguments of the current / last iterate call
    depth,        \* number of re-dispatches (recursive calls) in this call
    entry_state,  \* controller state when the caller invoked iterate
    entry_err,    \* last_err when the caller invoked iterate
    out,          \* value returned by the last iterate call
    ncalls,       \* iterate calls made so far
    \* SimulationHarness fields and the run_time call in progress
    hstate,       \* SYS::State: [pos, vel]
    time,         \* self.time (f64)
    log_every, since_log, log,
    enc_off,      \* ElevatorShim.enc_off
    pc,           \* position inside run_time
    dur,          \* run_time argument (f64)
    elapsed,      \* run_time local (f64)
    response,     \* run_time local
    steps,        \* control steps completed by the current run_time call
    total_steps,  \* control steps completed by all run_time calls
    nruns,        \* run_time calls made so far
    log0, since0, \* log length and step counter when the call began
    initial,      \* the state the harness was created with
    \* the log sink of the harness and the disposal of the harness
    csv,          \* a sink has been configured with use_csv
    sink,         \* records the sink has received
    dropped,      \* the harness has been disposed of
    diag,         \* a flush error has been reported
    \* a clamp call
    cl_a, cl_lo, cl_hi, cl_res

ctlvars == <<state, sp, last_err, zero_offset, zero_goal>>
callvars == <<it_pc, encoder, limit, depth, entry_state, entry_err, out, ncalls>>
hvars == <<hstate, time, log_every, since_log, log, enc_off, pc, dur, elapsed,
           response, steps, total_steps, nruns, log0, since0, initial>>
sinkvars == <<csv, sink, dropped, diag>>
clvars == <<cl_a, cl_lo, cl_hi, cl_res>>
vars == <<variant, debug, ctlvars, callvars, hvars, sinkvars, clvars>>

-----------------------------------------------------------------------------
(* f64 times *)

\* limb base 2^26
LIMB == 2 ^ 26

F64Zero == [neg |-> FALSE, h |-> 0, m |-> 0, l |-> 0]

\* number of significant bits of 0 <= n < 2^27
RECURSIVE BitLen(_)
BitLen(n) == IF n = 0 THEN 0 ELSE 1 + BitLen(n \div 2)

\* bits of the magnitude
F64Bits(t) ==
    IF t.h > 0 THEN 52 + BitLen(t.h)
    ELSE IF t.m > 0 THEN 26 + BitLen(t.m)
    ELSE BitLen(t.l)

\* carry propagation after a limb-wise operation
F64Carry(h, m, l) ==
    LET m1 == m + (l \div LIMB)
    IN  [neg |-> FALSE, h |-> h + (m1 \div LIMB), m |-> m1 % LIMB, l |-> l % LIMB]

\* round a magnitude to 53 significant bits, ties to even
F64Round(t) ==
    LET k == F64Bits(t) - 53
    IN  IF k <= 0 THEN t
        ELSE LET p    == 2 ^ k
                 q    == t.l \div p
                 r    == t.l % p
                 half == p \div 2
                 up   == IF r > half \/ (r = half /\ q % 2 = 1) THEN 1 ELSE 0
             IN  F64Carry(t.h, t.m, (q + up) * p)

\* a + b for a, b >= 0 (f64 addition, round to nearest even)
F64Add(a, b) == F64Round(F64Carry(a.h + b.h, a.m + b.m, a.l + b.l))

\* a < b for a >= 0
F64Less(a, b) ==
    /\ ~b.neg
    /\ \/ a.h < b.h
       \/ a.h = b.h /\ a.m < b.m
       \/ a.h = b.h /\ a.m = b.m /\ a.l < b.l

\* n * a computed exactly (no rounding), n a small natural
F64Times(n, a) == F64Carry(n * a.h, n * a.m, n * a.l)

\* 1/200 s = 0x1.47ae147ae147bp-8
CONTROL_DT == [neg |-> FALSE, h |-> 1310, m |-> 48318382, l |-> 5368832]
\* 1/200/1000 s = 0x1.4f8b588e368f1p-18
SIMUL_DT == [neg |-> FALSE, h |-> 1, m |-> 20852066, l |-> 14903537]

-----------------------------------------------------------------------------
(* util::clamp *)

\* clamp with the upper arm returning its argument
ClampValue_NoUpper(a, lower, upper) ==
    IF a < lower THEN lower
    ELSE IF a > upper THEN a
    ELSE a

\* the value clamp returns once the precondition check is passed
ClampValue(a, lower, upper) ==
    IF a < lower THEN lower
    ELSE IF a > upper THEN upper
    ELSE a

\* debug_assert!(lower <= upper)
ClampPanics_Le(dbg, lower, upper) == dbg /\ ~(lower <= upper)

\* debug_assert!(lower < upper): panics only when debug assertions are built in
ClampPanics(dbg, lower, upper) == dbg /\ ~(lower < upper)

\* the outcome of a call: a panic, or the value returned
Panic == [panic |-> TRUE, val |-> 0]
Return(v) == [panic |-> FALSE, val |-> v]

\* clamp(a, lower, upper)
clamp(dbg, a, lower, upper) ==
    IF ClampPanics(dbg, lower, upper) THEN Panic ELSE Return(ClampValue(a, lower, upper))

-----------------------------------------------------------------------------
(* plant: ElevatorSim::acc / ElevatorPIDLoop::acc and HarnessAble::sim_time *)

\* a / b rounded to the nearest integer, b > 0
RoundDiv(a, b) ==
    IF a >= 0 THEN (a + b \div 2) \div b ELSE -((b \div 2 - a) \div b)

\* acc * SIMUL_DT in velocity units (1e-8 m/s), for volt in 20 uV and vel in
\* 1e-8 m/s.  With G = 20, Kt = 24/133, Kv = 558.15629415/12, R = 12/133,
\* m = 5, r = 0.1524:
\*   (G*Kt*(Kv*volt*r - G*vel)) / (m*Kv*R*r*r) = 52.4934 volt - 148.107 vel
\* and one SIMUL_DT of it is 0.524934 per voltage unit less vel/1350.36.
AccVoltNum == 21
AccVoltDen == 40
AccVelDen == 1350

\* the acceleration with the weight of the carriage added: g * SIMUL_DT is
\* 4.9e-5 m/s
acc_Gravity(volt, vel) ==
    RoundDiv(AccVoltNum * volt, AccVoltDen) - RoundDiv(vel, AccVelDen) - 4900

\* ElevatorSim::acc(volt, vel) * SIMUL_DT
acc(volt, vel) == RoundDiv(AccVoltNum * volt, AccVoltDen) - RoundDiv(vel, AccVelDen)

\* position units inside sim_time: 2 nm, 500 per um
PosFine == 500
\* vel * SIMUL_DT in 2 nm: 1e-8 m/s * 5e-6 s = 5e-14 m = 1/40000 of 2 nm
VelPosDen == 40000

\* the loop of sim_time is
\*     while elapsed < dur { vel += acc(r, vel) * SIMUL_DT; pos += vel * SIMUL_DT;
\*                           elapsed += SIMUL_DT; }
\* Its counter elapsed does not depend on pos and vel, so the passes are counted
\* first and the body is then applied that many times.

\* elapsed and the number of passes, at most 2^k passes further on
RECURSIVE SimElapsed(_, _, _)
SimElapsed(c, d, k) ==
    IF ~F64Less(c.elapsed, d) THEN c
    ELSE IF k = 0 THEN [elapsed |-> F64Add(c.elapsed, SIMUL_DT), n |-> c.n + 1]
    ELSE LET half == SimElapsed(c, d, k - 1)
         IN  IF half.n >= 0 THEN SimElapsed(half, d, k - 1) ELSE half

\* the sim_time loop is followed for at most 2^SimLoopLog passes
SimLoopLog == 11

\* passes of the loop of sim_time(s, r, d)
SimPasses(d) == SimElapsed([elapsed |-> F64Zero, n |-> 0], d, SimLoopLog).n

\* passes when d is CONTROL_DT, as the harness calls it
ControlDtPasses == SimPasses(CONTROL_DT)

\* one pass of the loop body on <<pos, vel>>: velocity first, then position
SimStep(s, r) ==
    LET v == s[2] + acc(r, s[2])
    IN  <<s[1] + RoundDiv(v, VelPosDen), v>>

\* n passes of the loop body
RECURSIVE SimSteps(_, _, _)
SimSteps(s, r, n) ==
    IF n = 0 THEN s
    ELSE IF n = 1 THEN SimStep(s, r)
    ELSE LET half == SimSteps(s, r, n \div 2)
         IN  IF half[1] = half[1] THEN SimSteps(half, r, n - n \div 2) ELSE half

\* HarnessAble::sim_time(s, r, dur)
sim_time(s, r, d) ==
    LET n == IF d = CONTROL_DT THEN ControlDtPasses ELSE SimPasses(d)
        f == SimSteps(<<s.pos * PosFine, s.vel>>, r, n)
    IN  [pos |-> RoundDiv(f[1], PosFine), vel |-> f[2]]

-----------------------------------------------------------------------------
(* ElevatorPIDLoop *)

\* ZEROING_SPEED: 0.01 m/s in src/src/lib.rs, 0.04 m/s in the example crate,
\* in um per control period
ZEROING_SPEED_LIB == 50
ZEROING_SPEED_EXAMPLE == 200
ZEROING_SPEED == IF variant = "lib" THEN ZEROING_SPEED_LIB ELSE ZEROING_SPEED_EXAMPLE
\* 2.5 m and -0.02 m
MAX_HEIGHT == 2500000
MIN_HEIGHT == -20000
\* 1/200 s, the unit of time in controller products
DT == 1
\* 20 V/m
KP == 1
\* 5 V s/m
KD == 50
\* 12 V
V_MAX == 600000

\* ElevatorPIDLoop::new()
NewLoop ==
    /\ state = "Unitialized"
    /\ last_err = 0
    /\ sp = 0
    /\ zero_offset = 0
    /\ zero_goal = 0

\* iterate has not returned a value
NoOutput == [ok |-> FALSE, val |-> 0]

\* no iterate call has been made
NoCall ==
    /\ it_pc = "idle"
    /\ encoder = 0
    /\ limit = FALSE
    /\ depth = 0
    /\ entry_state = "Unitialized"
    /\ entry_err = 0
    /\ out = NoOutput
    /\ ncalls = 0

\* dbg_lt!(a, b) / dbg_gt!(a, b) of mod assertions: an ordering check that is
\* compiled out of builds without debug assertions
DbgLtPanics(dbg, a, b) == dbg /\ ~(a < b)
DbgGtPanics(dbg, a, b) == dbg /\ ~(a > b)

\* the two checks at the head of the Running arm; only src/src/lib.rs has them
RunningChecksPanic(e) ==
    /\ variant = "lib"
    /\ \/ DbgLtPanics(debug, e - zero_offset, MAX_HEIGHT)
       \/ DbgGtPanics(debug, e - zero_offset, MIN_HEIGHT)

\* the creep added instead of subtracted
CreepGoal_Up(zg) == zg + (ZEROING_SPEED * DT)

\* self.zero_goal - (Self::ZEROING_SPEED * Self::DT)
CreepGoal(zg) == zg - (ZEROING_SPEED * DT)

\* filtered_goal in Running
RunningGoal(setpoint) == clamp(debug, setpoint, MIN_HEIGHT, MAX_HEIGHT)

\* the error taken against the raw reading
PidError_NoOffset(goal, e, zo) == goal - e

\* err = filtered_goal - (encoder - self.zero_offset)
PidError(goal, e, zo) == goal - (e - zo)

\* the PID sum returned without the clamp
PidOutput_Unclamped(err, prev) == Return(err * KP + ((err - prev) \div DT) * KD)

\* clamp(err * KP + ((err - last_err) / DT) * KD, -12 V, 12 V); DT is 1, so the
\* division is exact
PidOutput(err, prev) ==
    clamp(debug, err * KP + ((err - prev) \div DT) * KD, -V_MAX, V_MAX)

\* a caller invokes iterate(e, l)
IterateCall(e, l) ==
    /\ it_pc \in {"idle", "done"}
    /\ it_pc' = "dispatch"
    /\ encoder' = e
    /\ limit' = l
    /\ depth' = 0
    /\ entry_state' = state
    /\ entry_err' = last_err
    /\ out' = NoOutput
    /\ ncalls' = ncalls + 1
    /\ UNCHANGED ctlvars

\* the Unitialized arm with "self.zero_goal = encoder" left out
IterUnitialized_NoRecord ==
    /\ it_pc = "dispatch"
    /\ state = "Unitialized"
    /\ state' = "Zeroing"
    /\ depth' = depth + 1
    /\ UNCHANGED <<sp, last_err, zero_offset, zero_goal>>
    /\ UNCHANGED <<it_pc, encoder, limit, entry_state, entry_err, out, ncalls>>

\* LoopState::Unitialized arm: record zero_goal, go to Zeroing, call iterate again
IterUnitialized ==
    /\ it_pc = "dispatch"
    /\ state = "Unitialized"
    /\ zero_goal' = encoder
    /\ state' = "Zeroing"
    /\ depth' = depth + 1
    /\ UNCHANGED <<sp, last_err, zero_offset>>
    /\ UNCHANGED <<it_pc, encoder, limit, entry_state, entry_err, out, ncalls>>

\* the Zeroing arm with "self.last_err = 0. * si::M" left out
IterZeroingLimit_NoReset ==
    /\ it_pc = "dispatch"
    /\ state = "Zeroing"
    /\ limit
    /\ state' = "Running"
    /\ zero_offset' = encoder
    /\ depth' = depth + 1
    /\ UNCHANGED <<sp, zero_goal, last_err>>
    /\ UNCHANGED <<it_pc, encoder, limit, entry_state, entry_err, out, ncalls>>

\* LoopState::Zeroing arm with the limit switch set: go to Running, call iterate again
IterZeroingLimit ==
    /\ it_pc = "dispatch"
    /\ state = "Zeroing"
    /\ limit
    /\ state' = "Running"
    /\ zero_offset' = encoder
    /\ last_err' = 0
    /\ depth' = depth + 1
    /\ UNCHANGED <<sp, zero_goal>>
    /\ UNCHANGED <<it_pc, encoder, limit, entry_state, entry_err, out, ncalls>>

\* a tail that keeps the filtered goal in zero_goal in every state
IterTail_GoalStored(goal, zg) ==
    LET err == PidError(goal, encoder, zero_offset)
        v   == PidOutput(err, last_err)
    IN  /\ zero_goal' = goal
        /\ IF v.panic
           THEN /\ it_pc' = "panic"
                /\ UNCHANGED <<last_err, out>>
           ELSE /\ last_err' = err
                /\ out' = [ok |-> TRUE, val |-> v.val]
                /\ it_pc' = "done"
        /\ UNCHANGED <<state, sp, zero_offset>>
        /\ UNCHANGED <<encoder, limit, depth, entry_state, entry_err, ncalls>>

\* the common tail of iterate with the given filtered goal; zg is zero_goal as
\* the arm left it
IterTail(goal, zg) ==
    LET err == PidError(goal, encoder, zero_offset)
        v   == PidOutput(err, last_err)
    IN  /\ zero_goal' = zg
        /\ IF v.panic
           THEN /\ it_pc' = "panic"
                     /\ UNCHANGED <<last_err, out>>
           ELSE /\ last_err' = err
                /\ out' = [ok |-> TRUE, val |-> v.val]
                /\ it_pc' = "done"
        /\ UNCHANGED <<state, sp, zero_offset>>
        /\ UNCHANGED <<encoder, limit, depth, entry_state, entry_err, ncalls>>

\* LoopState::Zeroing arm with the limit switch clear: creep the goal
IterZeroingCreep ==
    /\ it_pc = "dispatch"
    /\ state = "Zeroing"
    /\ ~limit
    /\ IterTail(CreepGoal(zero_goal), CreepGoal(zero_goal))

\* a Running arm that starts zeroing again when the limit switch is set
IterRunning_Rezero ==
    /\ it_pc = "dispatch"
    /\ state = "Running"
    /\ IF limit
       THEN /\ state' = "Zeroing"
            /\ zero_goal' = encoder
            /\ it_pc' = "done"
            /\ out' = [ok |-> TRUE, val |-> 0]
            /\ UNCHANGED <<sp, last_err, zero_offset>>
            /\ UNCHANGED <<encoder, limit, depth, entry_state, entry_err, ncalls>>
       ELSE IterTail(RunningGoal(sp).val, zero_goal)

\* a Running arm that returns 0 V while the limit switch is set
IterRunning_LimitStops ==
    /\ it_pc = "dispatch"
    /\ state = "Running"
    /\ IF limit
       THEN /\ it_pc' = "done"
            /\ out' = [ok |-> TRUE, val |-> 0]
            /\ UNCHANGED ctlvars
            /\ UNCHANGED <<encoder, limit, depth, entry_state, entry_err, ncalls>>
       ELSE IF RunningChecksPanic(encoder) \/ RunningGoal(sp).panic
       THEN /\ it_pc' = "panic"
            /\ UNCHANGED ctlvars
            /\ UNCHANGED <<encoder, limit, depth, entry_state, entry_err, out, ncalls>>
       ELSE IterTail(RunningGoal(sp).val, zero_goal)

\* LoopState::Running arm
IterRunning ==
    /\ it_pc = "dispatch"
    /\ state = "Running"
    /\ IF RunningChecksPanic(encoder) \/ RunningGoal(sp).panic
       THEN /\ it_pc' = "panic"
            /\ UNCHANGED ctlvars
            /\ UNCHANGED <<encoder, limit, depth, entry_state, entry_err, out, ncalls>>
       ELSE IterTail(RunningGoal(sp).val, zero_goal)

\* one step of the iterate call in progress
IterStep == IterUnitialized \/ IterZeroingLimit \/ IterZeroingCreep \/ IterRunning

\* a set_goal that stores the setpoint limited to the travel range
set_goal_Clamped(g) ==
    /\ sp' = ClampValue(g, MIN_HEIGHT, MAX_HEIGHT)
    /\ UNCHANGED <<state, last_err, zero_offset, zero_goal>>

\* set_goal(sp)
set_goal(g) ==
    /\ sp' = g
    /\ UNCHANGED <<state, last_err, zero_offset, zero_goal>>

\* get_goal()
get_goal == sp

-----------------------------------------------------------------------------
(* the harness before any run_time call, with the elevator shim *)

\* SimulationHarness::new(ElevatorShim::new(offset, ElevatorPIDLoop::new()), initial, n)
NewHarness(offset, s0, n) ==
    /\ enc_off = offset
    /\ initial = s0
    /\ hstate = s0
    /\ time = F64Zero
    /\ log_every = n
    /\ since_log = 0
    /\ log = <<>>
    /\ pc = "idle"
    /\ dur = F64Zero
    /\ elapsed = F64Zero
    /\ response = 0
    /\ steps = 0
    /\ total_steps = 0
    /\ nruns = 0
    /\ log0 = 0
    /\ since0 = 0
    /\ csv = FALSE
    /\ sink = <<>>
    /\ dropped = FALSE
    /\ diag = FALSE

\* no clamp call is modelled
NoClamp == cl_a = 0 /\ cl_lo = 0 /\ cl_hi = 0 /\ cl_res = Return(0)

-----------------------------------------------------------------------------
(* Spec: the controller driven directly, as test::basic drives it *)

\* sensor readings offered to iterate, um
EncoderValues == {-1000000, 0, 1000000, 1100000, 3600000}
\* setpoints offered to set_goal, um
GoalValues == {-50000, 0, 1000000, 3000000}
\* iterate calls per behaviour
MaxCalls == 3

Init ==
    /\ variant \in {"lib", "example"}
    /\ debug \in BOOLEAN
    /\ NewLoop
    /\ NoCall
    /\ NewHarness(0, [pos |-> 0, vel |-> 0], 1)
    /\ NoClamp

Iterate(e, l) ==
    /\ ncalls < MaxCalls
    /\ IterateCall(e, l)
    /\ UNCHANGED <<variant, debug, sinkvars, hvars, clvars>>

IterateStep ==
    /\ IterStep
    /\ UNCHANGED <<variant, debug, sinkvars, hvars, clvars>>

SetGoal(g) ==
    /\ it_pc \in {"idle", "done"}
    /\ set_goal(g)
    /\ UNCHANGED <<variant, debug, sinkvars, callvars, hvars, clvars>>

Next ==
    \/ \E e \in EncoderValues, l \in BOOLEAN : Iterate(e, l)
    \/ IterateStep
    \/ \E g \in GoalValues : SetGoal(g)

Spec == Init /\ [][Next]_vars

\* SpecLive: a call of iterate that has begun keeps running, as a function call
\* does, until it returns or panics
SpecLive == Spec /\ WF_vars(IterateStep)

-----------------------------------------------------------------------------
(* SpecClamp: util::clamp applied to inputs from a bounded set *)

ClampMax == 2
ClampValues == (0 - ClampMax) .. ClampMax
\* no result yet
ClampPending == [panic |-> FALSE, val |-> ClampMax + 1]

InitClamp ==
    /\ variant = "lib"
    /\ debug \in BOOLEAN
    /\ NewLoop
    /\ NoCall
    /\ NewHarness(0, [pos |-> 0, vel |-> 0], 1)
    /\ cl_a \in ClampValues
    /\ cl_lo \in ClampValues
    /\ cl_hi \in ClampValues
    /\ cl_res = ClampPending

ClampCall ==
    /\ cl_res = ClampPending
    /\ cl_res' = clamp(debug, cl_a, cl_lo, cl_hi)
    /\ UNCHANGED <<variant, debug, sinkvars, ctlvars, callvars, hvars, cl_a, cl_lo, cl_hi>>

NextClamp == ClampCall

SpecClamp == InitClamp /\ [][NextClamp]_vars

-----------------------------------------------------------------------------
(* ElevatorShim and SimulationHarness::run_time *)

\* StateShim::assert of the elevator shim.  src/src/lib.rs compares the position
\* with <= against both bounds; the example crate uses >= for MIN_HEIGHT.  The
\* dbg_isfinite! checks that follow cannot fail on the numbers of this model.
ShimAssert(v, s) ==
    IF v = "lib"
    THEN s.pos <= MAX_HEIGHT /\ s.pos <= MIN_HEIGHT
    ELSE s.pos <= MAX_HEIGHT /\ s.pos >= MIN_HEIGHT

\* the sensor reading and the limit switch the shim passes to iterate
ShimEncoder(s) == s.pos + enc_off
ShimLimit(s) == s.pos <= 0

\* log_dat with pos and vel exchanged
log_dat_Swapped(s, r, t) ==
    [pos |-> s.vel, vel |-> s.pos, sp |-> get_goal, volts |-> r, time |-> t]

\* ElevatorShim::log_dat(s, r, t)
log_dat(s, r, t) ==
    [pos |-> s.pos, vel |-> s.vel, sp |-> get_goal, volts |-> r, time |-> t]

\* the harness the example crate is written against keeps a log; the harness of
\* src/src/lib.rs stores log_every and never logs
Logging == variant = "example"

\* the log and the step counter after one more control step
LogStep(s, r, t) ==
    IF ~Logging THEN UNCHANGED <<log, since_log>>
    ELSE IF since_log + 1 >= log_every
         THEN log' = Append(log, log_dat(s, r, t)) /\ since_log' = 0
         ELSE UNCHANGED log /\ since_log' = since_log + 1

\* run_time(d) is called
RunTime(d) ==
    /\ pc = "idle"
    /\ ~dropped
    /\ it_pc \in {"idle", "done"}
    /\ pc' = "loop"
    /\ dur' = d
    /\ elapsed' = F64Zero
    /\ steps' = 0
    /\ nruns' = nruns + 1
    /\ log0' = Len(log)
    /\ since0' = since_log
    /\ UNCHANGED <<hstate, time, log_every, since_log, log, enc_off, response,
                   total_steps, initial>>
    /\ UNCHANGED <<variant, debug, sinkvars, ctlvars, callvars, clvars>>

\* while elapsed < time: the loop is entered and self.shim.update(self.state)
\* calls iterate
RunUpdate ==
    /\ pc = "loop"
    /\ F64Less(elapsed, dur)
    /\ pc' = "update"
    /\ IterateCall(ShimEncoder(hstate), ShimLimit(hstate))
    /\ UNCHANGED <<hstate, time, log_every, since_log, log, enc_off, dur, elapsed,
                   response, steps, total_steps, nruns, log0, since0, initial>>
    /\ UNCHANGED <<variant, debug, sinkvars, clvars>>

\* the controller runs inside update
RunIterate ==
    /\ pc = "update"
    /\ IterStep
    /\ UNCHANGED <<variant, debug, sinkvars, hvars, clvars>>

\* update has returned: self.state = SYS::sim_time(self.state, response, CONTROL_DT)
RunSim ==
    /\ pc = "update"
    /\ it_pc = "done"
    /\ response' = out.val
    /\ hstate' = sim_time(hstate, out.val, CONTROL_DT)
    /\ pc' = "assert"
    /\ UNCHANGED <<time, log_every, since_log, log, enc_off, dur, elapsed,
                   steps, total_steps, nruns, log0, since0, initial>>
    /\ UNCHANGED <<variant, debug, sinkvars, ctlvars, callvars, clvars>>

\* self.shim.assert(self.state) passes
RunAssertPass ==
    /\ pc = "assert"
    /\ ShimAssert(variant, hstate)
    /\ pc' = "tick"
    /\ UNCHANGED <<hstate, time, log_every, since_log, log, enc_off, dur, elapsed,
                   response, steps, total_steps, nruns, log0, since0, initial>>
    /\ UNCHANGED <<variant, debug, sinkvars, ctlvars, callvars, clvars>>

\* a failed assertion that lets the run go on
RunAssertFail_Continue ==
    /\ pc = "assert"
    /\ ~ShimAssert(variant, hstate)
    /\ pc' = "tick"
    /\ UNCHANGED <<hstate, time, log_every, since_log, log, enc_off, dur, elapsed,
                   response, steps, total_steps, nruns, log0, since0, initial>>
    /\ UNCHANGED <<variant, debug, sinkvars, ctlvars, callvars, clvars>>

\* self.shim.assert(self.state) panics: the run is aborted
RunAssertFail ==
    /\ pc = "assert"
    /\ ~ShimAssert(variant, hstate)
    /\ pc' = "aborted"
    /\ UNCHANGED <<hstate, time, log_every, since_log, log, enc_off, dur, elapsed,
                   response, steps, total_steps, nruns, log0, since0, initial>>
    /\ UNCHANGED <<variant, debug, sinkvars, ctlvars, callvars, clvars>>

\* elapsed += CONTROL_DT; self.time += CONTROL_DT; and the step is logged
RunTick ==
    /\ pc = "tick"
    /\ elapsed' = F64Add(elapsed, CONTROL_DT)
    /\ time' = F64Add(time, CONTROL_DT)
    /\ steps' = steps + 1
    /\ total_steps' = total_steps + 1
    /\ LogStep(hstate, response, F64Add(time, CONTROL_DT))
    /\ pc' = "loop"
    /\ UNCHANGED <<hstate, log_every, enc_off, dur, response, nruns, log0, since0,
                   initial>>
    /\ UNCHANGED <<variant, debug, sinkvars, ctlvars, callvars, clvars>>

\* the loop condition fails: return self.state
RunReturn ==
    /\ pc = "loop"
    /\ ~F64Less(elapsed, dur)
    /\ pc' = "idle"
    /\ UNCHANGED <<hstate, time, log_every, since_log, log, enc_off, dur, elapsed,
                   response, steps, total_steps, nruns, log0, since0, initial>>
    /\ UNCHANGED <<variant, debug, sinkvars, ctlvars, callvars, clvars>>

\* harness.shim_mut().controller_mut().set_goal(g) between runs
HarnessSetGoal(g) ==
    /\ pc = "idle"
    /\ ~dropped
    /\ set_goal(g)
    /\ UNCHANGED <<variant, debug, sinkvars, callvars, hvars, clvars>>

\* harness.use_csv(path): the log will be written to a file when the harness is
\* disposed of; the test calls it on the new harness
UseCsv ==
    /\ Logging
    /\ pc = "idle"
    /\ nruns = 0
    /\ ~dropped
    /\ ~csv
    /\ csv' = TRUE
    /\ UNCHANGED <<sink, dropped, diag>>
    /\ UNCHANGED <<variant, debug, ctlvars, callvars, hvars, clvars>>

\* a disposal that flushes only after a run_time call that returned
Drop_ReturnedOnly(ok) ==
    /\ pc = "idle"
    /\ ~dropped
    /\ dropped' = TRUE
    /\ IF csv /\ ok THEN sink' = log ELSE UNCHANGED sink
    /\ diag' = (csv /\ ~ok)
    /\ UNCHANGED csv
    /\ UNCHANGED <<variant, debug, ctlvars, callvars, hvars, clvars>>

\* the harness goes out of scope, at the end of the test or while the panic of a
\* failed assertion unwinds: the buffered records are written to the sink if one
\* is configured; ok is whether the write succeeds, and a failed write is
\* reported and goes no further
Drop(ok) ==
    /\ pc \in {"idle", "aborted"}
    /\ ~dropped
    /\ dropped' = TRUE
    /\ IF csv /\ ok THEN sink' = log ELSE UNCHANGED sink
    /\ diag' = (csv /\ ~ok)
    /\ UNCHANGED csv
    /\ UNCHANGED <<variant, debug, ctlvars, callvars, hvars, clvars>>

-----------------------------------------------------------------------------
(* SpecHarness: a harness with the elevator shim and PID loop *)

\* run_time arguments: -0.005, 0, 0.0125 and 0.055 s
Duration0125 == [neg |-> FALSE, h |-> 3276, m |-> 53687091, l |-> 13422592]
Duration055 == [neg |-> FALSE, h |-> 14417, m |-> 61740154, l |-> 59056128]
DurationValues ==
    {[CONTROL_DT EXCEPT !.neg = TRUE], F64Zero, Duration0125, Duration055}
\* plant positions the harness is created with, um; the plant starts at rest
InitialPositions == {-50000, 0, 100000, 2600000}
\* states the harness is created with: at rest at one of these positions, or
\* 18 mm below MAX_HEIGHT and moving up at 5 m/s
InitialStates ==
    {[pos |-> p, vel |-> 0] : p \in InitialPositions}
        \cup {[pos |-> MAX_HEIGHT - 18000, vel |-> 500000000]}
\* setpoints: the default and the 1 m of the example's test
HarnessGoals == {0, 1000000}
\* encoder offset of both tests, 1 m
TEST_OFFSET == 1000000
\* decimation factors
MaxLogEvery == 2
\* run_time calls per harness
MaxRuns == 2

\* the harness is run by the crates' tests, which are built with debug assertions
InitHarness ==
    /\ variant \in {"lib", "example"}
    /\ debug = TRUE
    /\ NewLoop
    /\ NoCall
    /\ \E s0 \in InitialStates, n \in 1 .. MaxLogEvery :
           NewHarness(TEST_OFFSET, s0, n)
    /\ NoClamp

NextHarness ==
    \/ \E d \in DurationValues : nruns < MaxRuns /\ RunTime(d)
    \/ RunUpdate
    \/ RunIterate
    \/ RunSim
    \/ RunAssertPass
    \/ RunAssertFail
    \/ RunTick
    \/ RunReturn
    \/ \E g \in HarnessGoals : HarnessSetGoal(g)
    \/ UseCsv
    \/ \E ok \in BOOLEAN : Drop(ok)

SpecHarness == InitHarness /\ [][NextHarness]_vars

-----------------------------------------------------------------------------
(* Claims about the controller, under Spec *)

\* iterate has returned to its caller
Returned == it_pc = "done"
\* the call that just returned took the controller into Running
EnteredRunning == Returned /\ entry_state # "Running" /\ state = "Running"

\* C1: the controller state moves only along Unitialized -> Zeroing -> Running:
\* from Unitialized a step leads to Unitialized or Zeroing, from Zeroing to
\* Zeroing or Running, and from Running only to Running.
C1_StateStep ==
    /\ state = "Unitialized" => state' \in {"Unitialized", "Zeroing"}
    /\ state = "Zeroing" => state' \in {"Zeroing", "Running"}
    /\ state = "Running" => state' = "Running"
C1_ForwardOnly == [][C1_StateStep]_vars
\* a controller that went through Zeroing into Running and was called again
C1_Witness ==
    /\ Returned
    /\ state = "Running"
    /\ entry_state = "Running"
    /\ zero_goal # zero_offset

C3_CreepStep ==
    /\ (it_pc = "dispatch" /\ state = "Zeroing" /\ ~limit)
           => /\ zero_goal' = zero_goal - ZEROING_SPEED * DT
              /\ zero_goal' < zero_goal
              /\ state' = "Zeroing"
              /\ it_pc' = "done"
    /\ (state = "Zeroing" /\ ~(it_pc = "dispatch" /\ ~limit))
           => zero_goal' = zero_goal
C3_FirstCall ==
    (Returned /\ entry_state = "Unitialized" /\ ~limit)
        => (state = "Zeroing" /\ zero_goal = encoder - ZEROING_SPEED * DT)
C3_ZeroGoalCreeps == [][C3_CreepStep]_vars /\ []C3_FirstCall
\* two successive creep steps have been made
C3_Witness ==
    /\ Returned
    /\ state = "Zeroing"
    /\ entry_state = "Zeroing"
    /\ ncalls = 2
    /\ ~limit

\* the step on which a call that enters Running returns: the Running arm, run
\* by re-dispatch in a call that began in another state
EnteringReturn ==
    /\ it_pc = "dispatch"
    /\ it_pc' \in {"done", "panic"}
    /\ entry_state # "Running"
    /\ state' = "Running"

\* C4 as stated: upon entering Running last_err is 0, and if the sensor reading
\* of the call that enters Running equals the setpoint, that call returns 0.
C4_EntersWithZeroErr == (state # "Running" /\ state' = "Running") => last_err' = 0
C4_OriginalReturn == (EnteringReturn /\ encoder = sp) => (out'.ok /\ out'.val = 0)
C4_Original == [][C4_EntersWithZeroErr /\ C4_OriginalReturn]_vars
\* C4 as amended: upon entering Running last_err is 0, and if the zero-referenced
\* sensor reading (encoder - zero_offset, which is 0 on that call) equals the
\* setpoint, the call that enters Running returns 0.
C4_ZeroedReturn ==
    (EnteringReturn /\ encoder - zero_offset = sp) => (out'.ok /\ out'.val = 0)
C4_ZeroedReading == [][C4_EntersWithZeroErr /\ C4_ZeroedReturn]_vars
\* a call entered Running with a non-zero reading, a previous error and setpoint 0
C4_Witness ==
    /\ EnteredRunning
    /\ entry_err # 0
    /\ encoder # 0
    /\ encoder - zero_offset = sp
    /\ out.ok
    /\ out.val = 0

-----------------------------------------------------------------------------
(* Claims about util::clamp, under SpecClamp *)

\* the clamp call has been made
ClampDone == cl_res # ClampPending

\* C9: with lo < hi, clamp(v, lo, hi) is lo when v < lo, hi when v > hi and v
\* otherwise, and so lies in [lo, hi].
C9_ClampInRange ==
    (ClampDone /\ cl_lo < cl_hi)
        => /\ ~cl_res.panic
           /\ cl_a < cl_lo => cl_res.val = cl_lo
           /\ cl_a > cl_hi => cl_res.val = cl_hi
           /\ (cl_lo <= cl_a /\ cl_a <= cl_hi) => cl_res.val = cl_a
           /\ cl_lo <= cl_res.val /\ cl_res.val <= cl_hi
\* a value above the upper bound was clamped to it
C9_Witness == ClampDone /\ cl_lo < cl_hi /\ cl_a > cl_hi /\ cl_res.val = cl_hi

\* C10 as stated: clamp called with lo >= hi panics instead of returning a value.
C10_Original == (ClampDone /\ cl_lo >= cl_hi) => cl_res.panic
\* C10 as amended: clamp called with lo >= hi panics in a build with debug
\* assertions; in a build without them it returns lo when v < lo, hi when
\* v > hi and v otherwise.
C10_PanicsInDebug ==
    (ClampDone /\ cl_lo >= cl_hi)
        => /\ debug => cl_res.panic
           /\ ~debug => /\ ~cl_res.panic
                        /\ cl_res.val = IF cl_a < cl_lo THEN cl_lo
                                        ELSE IF cl_a > cl_hi THEN cl_hi
                                        ELSE cl_a
\* clamp called with lo = hi in a debug build panicked
C10_Witness == ClampDone /\ cl_lo = cl_hi /\ debug /\ cl_res.panic

-----------------------------------------------------------------------------
(* Claims about the harness, under SpecHarness *)

\* a run_time call has returned
RunReturned == pc = "idle" /\ nruns > 0

\* n = ceil(d / CONTROL_DT), the products taken exactly
IsCeilOfDuration(n, d) ==
    IF d.neg \/ d = F64Zero
    THEN n = 0
    ELSE /\ n >= 1
         /\ F64Less(F64Times(n - 1, CONTROL_DT), d)
         /\ ~F64Less(F64Times(n, CONTROL_DT), d)

\* C5: a run_time(duration) call that returns has made exactly
\* ceil(duration / CONTROL_DT) control steps, none when duration <= 0, and the
\* plant state is then the one it began with.
C5_StepsAreCeil ==
    RunReturned
        => /\ IsCeilOfDuration(steps, dur)
           /\ (dur.neg \/ dur = F64Zero) => (nruns = 1 => hstate = initial)

C7_AssertChecksBounds ==
    /\ pc = "tick" => (MIN_HEIGHT <= hstate.pos /\ hstate.pos <= MAX_HEIGHT)
    /\ pc = "aborted" => (hstate.pos > MAX_HEIGHT \/ hstate.pos < MIN_HEIGHT)

\* the harness of a with_harness test: the plant at rest at 0 m with the default
\* goal (src/src/lib.rs), or at 0.1 m with goal 1 m (the example crate)
TestHarness ==
    /\ enc_off = TEST_OFFSET
    /\ \/ variant = "lib" /\ initial = [pos |-> 0, vel |-> 0] /\ sp = 0
       \/ variant = "example" /\ initial = [pos |-> 100000, vel |-> 0] /\ sp = 1000000

\* C8: a run of a with_harness test is never aborted by the safety assertion.
C8_TestsNotAborted == TestHarness => pc # "aborted"


-----------------------------------------------------------------------------
(* Claims about the plant and the disposal of the harness, under SpecHarness *)

\* C11: with voltage 0 and velocity 0 the acceleration is 0, and every sim_time
\* call with response 0 on a state with velocity 0 returns that state, however
\* many such calls are made one after another.
C11_ZeroInputStep ==
    (pc = "update" /\ it_pc = "done" /\ out.val = 0 /\ hstate.vel = 0)
        => hstate' = hstate
C11_ZeroInputInvariance == [][acc(0, 0) = 0 /\ C11_ZeroInputStep]_vars
\* the second run on a plant at rest has made three steps with response 0 and
\* the plant is where the harness was created
C11_Witness ==
    /\ pc = "loop"
    /\ nruns = 2
    /\ steps = 3
    /\ total_steps >= 6
    /\ response = 0
    /\ hstate.vel = 0
    /\ hstate = initial

\* C12: a harness can be disposed of after a run_time call returned and after
\* one was aborted by the safety assertion; the disposal of a harness with a
\* sink writes the whole log to the sink or, when the write fails, reports the
\* failure, and it leaves the outcome of the run as it was.
C12_DropState ==
    /\ (pc \in {"idle", "aborted"} /\ ~dropped) => ENABLED (\E ok \in BOOLEAN : Drop(ok))
    /\ (dropped /\ csv /\ ~diag) => sink = log
    /\ (dropped /\ ~csv) => (sink = <<>> /\ ~diag)
    /\ ~dropped => (sink = <<>> /\ ~diag)
C12_DropStep == (~dropped /\ dropped') => (pc' = pc /\ log' = log /\ hstate' = hstate)
C12_FlushedOnDrop == []C12_DropState /\ [][C12_DropStep]_vars
\* an aborted run left a record in the log and the disposal wrote it to the sink
C12_Witness ==
    /\ pc = "aborted"
    /\ dropped
    /\ csv
    /\ ~diag
    /\ Len(log) > 0
    /\ sink = log


-----------------------------------------------------------------------------
(* Claims about the controller, under SpecLive and Spec *)

\* C13: every iterate call ends, by a return or a panic, after at most two
\* re-dispatches, and the controller is not Unitialized when it has ended.  A
\* call on an Unitialized controller returns: with the limit switch clear after
\* one re-dispatch, in Zeroing, zero_goal having been set to the reading and
\* lowered by one creep step; with the limit switch set after two re-dispatches,
\* in Running, with zero_goal and zero_offset equal to the reading.
C13_Depth == depth <= 2
C13_Ended == it_pc \in {"done", "panic"} => state # "Unitialized"
C13_FromUnitialized ==
    (it_pc \in {"done", "panic"} /\ entry_state = "Unitialized")
        => /\ it_pc = "done"
           /\ IF limit
              THEN /\ state = "Running"
                   /\ depth = 2
                   /\ zero_offset = encoder
                   /\ zero_goal = encoder
              ELSE /\ state = "Zeroing"
                   /\ depth = 1
                   /\ zero_offset = 0
                   /\ zero_goal = encoder - ZEROING_SPEED * DT
C13_DispatchStep ==
    it_pc = "dispatch" => (it_pc' \in {"done", "panic"} \/ depth' = depth + 1)
C13_Terminates ==
    /\ [](C13_Depth /\ C13_Ended /\ C13_FromUnitialized)
    /\ [][C13_DispatchStep]_vars
    /\ (it_pc = "dispatch" ~> it_pc \in {"done", "panic"})
\* the first call, with the limit switch set, has returned in Running after two
\* re-dispatches
C13_Witness ==
    /\ Returned
    /\ entry_state = "Unitialized"
    /\ limit
    /\ depth = 2
    /\ state = "Running"
    /\ encoder # 0
    /\ zero_offset = encoder


\* C14: a call of iterate that returns has computed
\*     error = filtered_goal - (encoder - zero_offset)
\* with filtered_goal the crept zero_goal in Zeroing and the setpoint limited to
\* [MIN_HEIGHT, MAX_HEIGHT] in Running; it returns
\*     error * KP + ((error - prev) / DT) * KD   limited to [-V_MAX, V_MAX]
\* where prev is last_err as it was before the call, or 0 when the call took the
\* controller from Zeroing to Running; and it leaves last_err = error.
C14_FilteredGoal ==
    IF state = "Running"
    THEN IF sp < MIN_HEIGHT THEN MIN_HEIGHT
         ELSE IF sp > MAX_HEIGHT THEN MAX_HEIGHT
         ELSE sp
    ELSE zero_goal - ZEROING_SPEED * DT
C14_Prev == IF entry_state # "Running" /\ state = "Running" THEN 0 ELSE entry_err
C14_ReturnStep ==
    (it_pc = "dispatch" /\ it_pc' = "done")
        => LET error == C14_FilteredGoal - (encoder - zero_offset)
               sum   == error * KP + ((error - C14_Prev) \div DT) * KD
               v     == IF sum < 0 - V_MAX THEN 0 - V_MAX
                        ELSE IF sum > V_MAX THEN V_MAX
                        ELSE sum
           IN  /\ out' = [ok |-> TRUE, val |-> v]
               /\ last_err' = error
C14_PidFormula == [][C14_ReturnStep]_vars
\* a call in Running with a zero offset and a previous error returned a value
\* inside the voltage range
C14_Witness ==
    /\ Returned
    /\ state = "Running"
    /\ entry_state = "Running"
    /\ zero_offset # 0
    /\ entry_err # 0
    /\ last_err # 0
    /\ out.val # 0
    /\ 0 - V_MAX < out.val
    /\ out.val < V_MAX


-----------------------------------------------------------------------------
(* Claims about run_time and sim_time, under SpecHarness *)

\* C15: a control step of run_time is, in this order: the shim's update on the
\* current plant state (the controller is called with pos + enc_off and
\* pos <= 0); sim_time over one CONTROL_DT from that state under the value
\* update returned; the shim's assert on the new state; and, only if it passed,
\* elapsed += CONTROL_DT.  When the assert fails the run is aborted: plant,
\* controller, elapsed and time change no more.
C15_StepOrder ==
    /\ (pc = "loop" /\ pc' # "loop")
           => \/ pc' = "idle" /\ ~F64Less(elapsed, dur)
              \/ /\ pc' = "update"
                 /\ it_pc' = "dispatch"
                 /\ encoder' = hstate.pos + enc_off
                 /\ limit' = (hstate.pos <= 0)
    /\ (pc = "update" /\ pc' # "update")
           => /\ pc' = "assert"
              /\ it_pc = "done"
              /\ hstate' = sim_time(hstate, out.val, CONTROL_DT)
              /\ UNCHANGED ctlvars
    /\ pc = "assert"
           => /\ pc' = IF ShimAssert(variant, hstate) THEN "tick" ELSE "aborted"
              /\ UNCHANGED <<hstate, ctlvars>>
    /\ pc = "tick"
           => /\ pc' = "loop"
              /\ elapsed' = F64Add(elapsed, CONTROL_DT)
              /\ UNCHANGED <<hstate, ctlvars>>
    /\ pc # "update" => hstate' = hstate
    /\ pc \notin {"loop", "update"} => UNCHANGED callvars
    /\ pc # "tick" => (time' = time /\ (elapsed' = elapsed \/ pc = "idle"))
    /\ pc = "aborted" => UNCHANGED <<pc, hstate, ctlvars, callvars, elapsed, time, steps>>
C15_ControlStepOrder == [][C15_StepOrder]_vars
\* a run was aborted in its second control step, after one complete step
C15_Witness ==
    /\ pc = "aborted"
    /\ steps = 1
    /\ elapsed = CONTROL_DT
    /\ ~ShimAssert(variant, hstate)
    /\ it_pc = "done"
    /\ ncalls = 2


\* "1000 sims per dt": SIMUL_DT is CONTROL_DT / 1000
SIMS_PER_DT == 1000

\* C16: sim_time over one CONTROL_DT makes exactly CONTROL_DT / SIMUL_DT = 1000
\* passes of the Euler step, each under the same response and each updating the
\* velocity first and then the position with the new velocity; it returns the
\* new state and leaves the controller as it is.
C16_SimCall ==
    (pc = "update" /\ pc' = "assert")
        => /\ ControlDtPasses = SIMS_PER_DT
           /\ LET f == SimSteps(<<hstate.pos * PosFine, hstate.vel>>, out.val, SIMS_PER_DT)
              IN  hstate' = [pos |-> RoundDiv(f[1], PosFine), vel |-> f[2]]
           /\ UNCHANGED ctlvars
C16_ExactSubSteps ==
    [][C16_SimCall /\ \A v \in {-100000, 0, 100000} :
                          SimStep(<<0, v>>, 0)[1] = RoundDiv(SimStep(<<0, v>>, 0)[2], VelPosDen)]_vars


-----------------------------------------------------------------------------
(* Claims about the controller's fields, under Spec *)

\* C17: set_goal(g) stores g as it is, inside the travel range or not, so that
\* get_goal then returns g, and changes no other field of the controller;
\* iterate never changes the setpoint, and the setpoint is limited to
\* [MIN_HEIGHT, MAX_HEIGHT] only where a call in Running takes its error from it
\* (a call in Zeroing takes its error from zero_goal).
C17_SetGoalCall ==
    \A g \in GoalValues :
        SetGoal(g) => /\ get_goal' = g
                      /\ UNCHANGED <<state, last_err, zero_offset, zero_goal>>
C17_OutsideCalls ==
    (it_pc' = it_pc /\ ncalls' = ncalls /\ depth' = depth)
        => UNCHANGED <<state, last_err, zero_offset, zero_goal>>
C17_IterateUse ==
    /\ it_pc = "dispatch" => sp' = sp
    /\ (it_pc = "dispatch" /\ it_pc' = "done" /\ state = "Running")
           => last_err' = (IF sp < MIN_HEIGHT THEN MIN_HEIGHT
                           ELSE IF sp > MAX_HEIGHT THEN MAX_HEIGHT
                           ELSE sp) - (encoder - zero_offset)
    /\ (it_pc = "dispatch" /\ it_pc' = "done" /\ state = "Zeroing")
           => last_err' = zero_goal' - (encoder - zero_offset)
C17_SetGoalFrame == [][C17_SetGoalCall /\ C17_OutsideCalls /\ C17_IterateUse]_vars
\* a setpoint above MAX_HEIGHT is held as given and a call in Running has taken
\* its error from MAX_HEIGHT
C17_Witness ==
    /\ Returned
    /\ state = "Running"
    /\ get_goal > MAX_HEIGHT
    /\ last_err = MAX_HEIGHT - (encoder - zero_offset)
    /\ last_err # get_goal - (encoder - zero_offset)


\* C18: a call of iterate on a controller in Running has an outcome (return or
\* panic, value returned, fields afterwards) that is a function of the fields
\* and the sensor reading alone: it is the same with the limit switch set and
\* with it clear.
C18_Reading == encoder - zero_offset
C18_Panics ==
    /\ variant = "lib"
    /\ debug
    /\ (C18_Reading >= MAX_HEIGHT \/ C18_Reading <= MIN_HEIGHT)
C18_Error ==
    (IF sp < MIN_HEIGHT THEN MIN_HEIGHT ELSE IF sp > MAX_HEIGHT THEN MAX_HEIGHT ELSE sp)
        - C18_Reading
C18_Sum == C18_Error * KP + ((C18_Error - last_err) \div DT) * KD
C18_Value ==
    IF C18_Sum < 0 - V_MAX THEN 0 - V_MAX ELSE IF C18_Sum > V_MAX THEN V_MAX ELSE C18_Sum
C18_RunningCall ==
    (it_pc = "dispatch" /\ state = "Running" /\ entry_state = "Running")
        => /\ UNCHANGED <<state, sp, zero_offset, zero_goal>>
           /\ IF C18_Panics
              THEN it_pc' = "panic" /\ out' = out /\ last_err' = last_err
              ELSE /\ it_pc' = "done"
                   /\ out' = [ok |-> TRUE, val |-> C18_Value]
                   /\ last_err' = C18_Error
C18_LimitIgnored == [][C18_RunningCall]_vars
\* a call in Running with the limit switch set returned a non-zero value and
\* left an error
C18_Witness ==
    /\ Returned
    /\ entry_state = "Running"
    /\ limit
    /\ out.val # 0
    /\ last_err # 0
    /\ last_err # entry_err


\* C19: zero_offset is 0 whenever the controller is Unitialized or Zeroing; it
\* is written only by the step from Zeroing to Running, which sets it to the
\* sensor reading; and once the controller is Running no step, of iterate or of
\* set_goal, changes zero_offset or zero_goal.
C19_ZeroBeforeRunning == state \in {"Unitialized", "Zeroing"} => zero_offset = 0
C19_Writes ==
    /\ zero_offset' # zero_offset
           => (state = "Zeroing" /\ state' = "Running" /\ zero_offset' = encoder)
    /\ (state = "Zeroing" /\ state' = "Running") => zero_offset' = encoder
    /\ state = "Running" => UNCHANGED <<zero_offset, zero_goal>>
C19_OffsetWrittenOnce == []C19_ZeroBeforeRunning /\ [][C19_Writes]_vars
\* a controller zeroed at a non-zero reading has since been given another
\* setpoint and called twice with other readings
C19_Witness ==
    /\ Returned
    /\ ncalls = 3
    /\ state = "Running"
    /\ entry_state = "Running"
    /\ zero_offset # 0
    /\ zero_goal = zero_offset
    /\ encoder # zero_offset
    /\ sp # 0


-----------------------------------------------------------------------------
(* Claims about several run_time calls on one harness, under SpecHarness *)

\* n * a as f64 multiplication gives it: the exact product rounded once
F64Mul(n, a) == F64Round(F64Times(n, a))

\* C20: a run_time call starts its own elapsed at 0 and starts from the plant
\* state, the controller and the harness time that the previous call left; and
\* at all times the harness time equals CONTROL_DT times the number of control
\* steps completed in all calls.
C20_CallStart ==
    (pc = "idle" /\ pc' = "loop")
        => /\ elapsed' = F64Zero
           /\ steps' = 0
           /\ UNCHANGED <<hstate, ctlvars, time, total_steps>>
C20_TimeIsSteps == time = F64Mul(total_steps, CONTROL_DT)
C20_TimeCarriesOver == []C20_TimeIsSteps /\ [][C20_CallStart]_vars

=============================================================================
